---- MODULE Spec2Model ----
(***************************************************************************)
(* The ledger-to-block pipeline of firehose-xrpl: rpc.Fetcher (Fetch,      *)
(* FetchBatch, IsBlockAvailable), rpc.Client (GetLatestLedger, GetLedger)  *)
(* and the decoder entry point used by the Fetch workers.                   *)
(*                                                                         *)
(* Strings are sequences of one-character strings, byte slices are         *)
(* sequences of numbers 0..255.  The upstream node, the caller and the     *)
(* external binary codec are the environment: their answers are drawn      *)
(* from the small sets below.                                              *)
(***************************************************************************)
EXTENDS Integers, Sequences, FiniteSets, TLC

\* ------------------------------------------------------------------ bounds

\* ledger sequences range over 0..MaxSeq
MaxSeq == 2
\* transactions per ledger response of a directly called Fetch
MaxTx == 2
\* transactions per ledger response of a Fetch run by FetchBatch
MaxBatchTx == 0
\* the configured workerPoolSize ranges over MaxWorkerPool down to -1
MaxWorkerPool == 2
\* length of the request list of FetchBatch, and number of Fetch frames
MaxBatch == 2

\* ------------------------------------------------------------------ hex

HexLower == <<"0","1","2","3","4","5","6","7","8","9","a","b","c","d","e","f">>
HexUpper == <<"0","1","2","3","4","5","6","7","8","9","A","B","C","D","E","F">>

\* encoding/hex reverseHexTable: the value of a hex digit, 255 for any other byte
fromHexChar(c) ==
    IF \E i \in 1..16 : HexLower[i] = c THEN (CHOOSE i \in 1..16 : HexLower[i] = c) - 1
    ELSE IF \E i \in 1..16 : HexUpper[i] = c THEN (CHOOSE i \in 1..16 : HexUpper[i] = c) - 1
    ELSE 255

\* hex.Decode: pairs of digits to bytes; an invalid digit or an odd length is an error
hexDecode(s) ==
    LET n == Len(s) \div 2
        badPair(i) == fromHexChar(s[2*i - 1]) > 15 \/ fromHexChar(s[2*i]) > 15
    IN  IF (\E i \in 1..n : badPair(i)) \/ Len(s) % 2 = 1
        THEN [err |-> TRUE, bytes |-> <<>>]
        ELSE [err |-> FALSE,
              bytes |-> [i \in 1..n |-> fromHexChar(s[2*i - 1]) * 16 + fromHexChar(s[2*i])]]

\* hex.EncodeToString: lower-case digits
hexEncodeToString(b) ==
    [i \in 1..(2 * Len(b)) |->
        IF i % 2 = 1 THEN HexLower[(b[(i + 1) \div 2] \div 16) + 1]
                     ELSE HexLower[(b[i \div 2] % 16) + 1]]

\* strings.ToUpper on a string of hex digits
ToUpper(s) ==
    [i \in 1..Len(s) |->
        IF fromHexChar(s[i]) <= 15 THEN HexUpper[fromHexChar(s[i]) + 1] ELSE s[i]]

\* decodeHexWithPool: the decoded bytes are copied out of the pooled buffer
decodeHexWithPool(hexStr) == hexDecode(hexStr)

\* ------------------------------------------------------------------ strconv

\* the largest int64, at the width of the model
MaxInt64 == 127

Digits == <<"0", "1", "2", "3", "4", "5", "6", "7", "8", "9">>

isDigit(c) == \E v \in 0..9 : Digits[v + 1] = c

digitValue(c) == CHOOSE v \in 0..9 : Digits[v + 1] = c

\* the value of a string of digits, as strconv.ParseUint accumulates it
RECURSIVE ParseDigits(_, _)
ParseDigits(s, n) ==
    IF s = <<>> THEN n ELSE ParseDigits(Tail(s), n * 10 + digitValue(Head(s)))

\* strconv.ParseInt(s, 10, 64): a syntax error for an empty string, a lone
\* sign or a character that is no digit; a range error, with the nearest
\* bound as value, outside int64
ParseInt(s) ==
    IF s = <<>> THEN [err |-> "syntax", n |-> 0]
    ELSE LET neg == Head(s) = "-"
             rest == IF Head(s) \in {"+", "-"} THEN Tail(s) ELSE s
         IN  IF rest = <<>> \/ \E i \in 1..Len(rest) : ~isDigit(rest[i])
             THEN [err |-> "syntax", n |-> 0]
             ELSE LET un == ParseDigits(rest, 0)
                  IN  IF ~neg /\ un > MaxInt64 THEN [err |-> "range", n |-> MaxInt64]
                      ELSE IF neg /\ un > MaxInt64 + 1
                          THEN [err |-> "range", n |-> 0 - (MaxInt64 + 1)]
                      ELSE [err |-> "", n |-> IF neg THEN 0 - un ELSE un]

\* the parse of total_coins without the reset to 0 on an error
totalDropsNoReset(totalCoins) == ParseInt(totalCoins).n

\* Fetch, the parse of total_coins: 0, with a warning, on an error
totalDrops(totalCoins) ==
    LET r == ParseInt(totalCoins)
    IN  IF r.err # "" THEN 0 ELSE r.n

\* ------------------------------------------------------------------ codec

RECURSIVE SumBytes(_)
SumBytes(b) == IF b = <<>> THEN 0 ELSE Head(b) + SumBytes(Tail(b))

\* sha512.Sum512(data)[:32], abstracted to a one-byte digest of the data
sha512Half(data) == << (SumBytes(data) * 7 + 3) % 256 >>

txnHashPrefix == <<84, 88, 78, 0>>

\* Client.computeTxHash: "" when the blob is not hex, else the upper-case hex
\* of SHA-512Half(prefix + blob)
computeTxHash(txBlobHex) ==
    LET d == hexDecode(txBlobHex)
    IN  IF d.err THEN <<>>
        ELSE ToUpper(hexEncodeToString(sha512Half(txnHashPrefix \o d.bytes)))

\* binarycodec.Decode, the external XRPL codec, as a table on the first byte of
\* the blob: 1 a Payment, 2 a transaction of a type the registry does not
\* know, 3 an object without TransactionType (a metadata object), no bytes the
\* empty object, anything else a codec error.
binarycodecDecode(hexStr) ==
    LET d == hexDecode(hexStr)
    IN  IF d.err THEN [err |-> TRUE, obj |-> <<>>]
        ELSE IF d.bytes = <<>> THEN [err |-> FALSE, obj |-> <<>>]
        ELSE IF d.bytes[1] = 1
            THEN [err |-> FALSE,
                  obj |-> [TransactionType |-> "Payment", Account |-> "rAAA"]]
        ELSE IF d.bytes[1] = 2
            THEN [err |-> FALSE,
                  obj |-> [TransactionType |-> "FutureTx", Account |-> "rBBB"]]
        ELSE IF d.bytes[1] = 3
            THEN [err |-> FALSE, obj |-> [TransactionResult |-> "tesSUCCESS"]]
        ELSE [err |-> TRUE, obj |-> <<>>]

\* TxTypeStringToProto, as the table of its switch: type name, enum value
TxTypeTable ==
    {
      <<"Payment", "TX_PAYMENT">>, <<"EscrowCreate", "TX_ESCROW_CREATE">>,
      <<"EscrowFinish", "TX_ESCROW_FINISH">>, <<"AccountSet", "TX_ACCOUNT_SET">>,
      <<"EscrowCancel", "TX_ESCROW_CANCEL">>,
      <<"SetRegularKey", "TX_SET_REGULAR_KEY">>, <<"OfferCreate", "TX_OFFER_CREATE">>,
      <<"OfferCancel", "TX_OFFER_CANCEL">>, <<"TicketCreate", "TX_TICKET_CREATE">>,
      <<"SignerListSet", "TX_SIGNER_LIST_SET">>,
      <<"PaymentChannelCreate", "TX_PAYMENT_CHANNEL_CREATE">>,
      <<"PaymentChannelFund", "TX_PAYMENT_CHANNEL_FUND">>,
      <<"PaymentChannelClaim", "TX_PAYMENT_CHANNEL_CLAIM">>,
      <<"CheckCreate", "TX_CHECK_CREATE">>, <<"CheckCash", "TX_CHECK_CASH">>,
      <<"CheckCancel", "TX_CHECK_CANCEL">>, <<"DepositPreauth", "TX_DEPOSIT_PREAUTH">>,
      <<"TrustSet", "TX_TRUST_SET">>, <<"AccountDelete", "TX_ACCOUNT_DELETE">>,
      <<"NFTokenMint", "TX_NFT_MINT">>, <<"NFTokenBurn", "TX_NFT_BURN">>,
      <<"NFTokenCreateOffer", "TX_NFT_CREATE_OFFER">>,
      <<"NFTokenCancelOffer", "TX_NFT_CANCEL_OFFER">>,
      <<"NFTokenAcceptOffer", "TX_NFT_ACCEPT_OFFER">>, <<"Clawback", "TX_CLAWBACK">>,
      <<"AMMCreate", "TX_AMM_CREATE">>, <<"AMMDeposit", "TX_AMM_DEPOSIT">>,
      <<"AMMWithdraw", "TX_AMM_WITHDRAW">>, <<"AMMVote", "TX_AMM_VOTE">>,
      <<"AMMBid", "TX_AMM_BID">>, <<"AMMDelete", "TX_AMM_DELETE">>,
      <<"XChainCreateBridge", "TX_XCHAIN_CREATE_BRIDGE">>,
      <<"XChainCreateClaimID", "TX_XCHAIN_CREATE_CLAIM_ID">>,
      <<"XChainCommit", "TX_XCHAIN_COMMIT">>, <<"XChainClaim", "TX_XCHAIN_CLAIM">>,
      <<"XChainAccountCreateCommit", "TX_XCHAIN_ACCOUNT_CREATE_COMMIT">>,
      <<"XChainAddClaimAttestation", "TX_XCHAIN_ADD_CLAIM_ATTESTATION">>,
      <<"XChainAddAccountCreateAttestation", "TX_XCHAIN_ADD_ACCOUNT_CREATE_ATTESTATION">>,
      <<"XChainModifyBridge", "TX_XCHAIN_MODIFY_BRIDGE">>, <<"DIDSet", "TX_DID_SET">>,
      <<"DIDDelete", "TX_DID_DELETE">>, <<"OracleSet", "TX_ORACLE_SET">>,
      <<"OracleDelete", "TX_ORACLE_DELETE">>
    }

\* TxTypeStringToProto: the enum value of the table, TX_UNKNOWN by default
TxTypeStringToProto(txType) ==
    IF \E p \in TxTypeTable : p[1] = txType
    THEN (CHOOSE p \in TxTypeTable : p[1] = txType)[2]
    ELSE "TX_UNKNOWN"

\* the type names that the switch of mapTxDetails has a case for
DetailTypes ==
    {
      "Payment", "OfferCreate", "OfferCancel", "TrustSet", "AccountSet",
      "AccountDelete", "SetRegularKey", "SignerListSet", "EscrowCreate",
      "EscrowFinish", "EscrowCancel", "PaymentChannelCreate", "PaymentChannelFund",
      "PaymentChannelClaim", "CheckCreate", "CheckCash", "CheckCancel",
      "DepositPreauth", "TicketCreate", "NFTokenMint", "NFTokenBurn",
      "NFTokenCreateOffer", "NFTokenCancelOffer", "NFTokenAcceptOffer", "Clawback",
      "AMMCreate", "AMMDeposit", "AMMWithdraw", "AMMVote", "AMMBid", "AMMDelete",
      "AMMClawback", "DIDSet", "DIDDelete", "OracleSet", "OracleDelete",
      "MPTokenIssuanceCreate", "MPTokenIssuanceDestroy", "MPTokenIssuanceSet",
      "MPTokenAuthorize", "CredentialCreate", "CredentialAccept", "CredentialDelete",
      "PermissionedDomainSet", "PermissionedDomainDelete", "DelegateSet", "Batch",
      "EnableAmendment", "SetFee", "UNLModify"
    }

\* no variant of the tx_details oneof is set
NoDetails == [variant |-> "none"]

\* Mapper.mapTxDetails: the tx_details variant of the type, none without a case
mapTxDetails(txType) ==
    IF txType \in DetailTypes THEN [variant |-> txType] ELSE NoDetails

Nil == [kind |-> "nil"]

\* Mapper.MapTransactionToProto: fails without TransactionType, else the
\* common fields (the positional index among them) and the details of the type
MapperMapTransactionToProto(flatTx, txBlob, metaBlob, txHash, txIndex, result) ==
    IF "TransactionType" \notin DOMAIN flatTx
    THEN [err |-> "missing TransactionType in transaction", tx |-> Nil]
    ELSE [err |-> "",
          tx |-> [kind |-> "tx", Hash |-> txHash, Result |-> result, Index |-> txIndex,
                  TxBlob |-> txBlob, MetaBlob |-> metaBlob,
                  TxType |-> flatTx.TransactionType,
                  TxDetails |-> mapTxDetails(flatTx.TransactionType),
                  Account |-> IF "Account" \in DOMAIN flatTx THEN flatTx.Account ELSE ""]]

\* Decoder.MapTransactionToProto: codec on the blob, codec on the metadata, mapper
DecoderMapTransactionToProto(txBlob, metaBlob, txHash, txIndex) ==
    LET flatTx == binarycodecDecode(hexEncodeToString(txBlob))
        meta == binarycodecDecode(hexEncodeToString(metaBlob))
    IN  IF flatTx.err THEN [err |-> "decoding transaction", tx |-> Nil]
        ELSE IF meta.err THEN [err |-> "decoding metadata", tx |-> Nil]
        ELSE MapperMapTransactionToProto(flatTx.obj, txBlob, metaBlob, txHash, txIndex,
                IF "TransactionResult" \in DOMAIN meta.obj
                THEN meta.obj.TransactionResult ELSE "")

\* ------------------------------------------------------------------ inputs

Min(a, b) == IF a < b THEN a ELSE b

\* elements of result.ledger.transactions as the upstream may send them
\* (binary mode: hash, tx_blob, meta; a field may be missing)
TxInputs ==
    { [hash |-> <<"A","B">>, tx_blob |-> <<"0","1">>, meta |-> <<"0","3">>],
      [hash |-> <<"C","D">>, tx_blob |-> <<"0","2">>, meta |-> <<"0","3">>],
      [hash |-> <<"E","F">>, tx_blob |-> <<"0","3">>, meta |-> <<"0","3">>],
      [hash |-> <<"A","B">>, tx_blob |-> <<"0","1">>, meta |-> <<"f","f">>],
      [hash |-> <<"A","B">>, tx_blob |-> <<"0","1">>, meta |-> <<"0","g">>],
      [hash |-> <<"1","2">>, tx_blob |-> <<"0","g">>, meta |-> <<"0","3">>],
      [hash |-> <<"3","4">>, meta |-> <<"0","3">>] }

GoodTx == [hash |-> <<"A","B">>, tx_blob |-> <<"0","1">>, meta |-> <<"0","3">>]

TxLists(max) == UNION { [1..k -> TxInputs] : k \in 0..max }

ShortTxLists(max) == IF max = 0 THEN { <<>> } ELSE { <<>>, <<GoodTx>> }

\* result.ledger_hash and result.ledger.ledger_data as the upstream may send them
HeaderInputs ==
    { [ledger_hash |-> <<"A","1">>, ledger_data |-> <<"0","1">>],
      [ledger_hash |-> <<"g","1">>, ledger_data |-> <<"0","1">>],
      [ledger_hash |-> <<>>,        ledger_data |-> <<"0","1">>],
      [ledger_hash |-> <<"A","1">>, ledger_data |-> <<>>],
      [ledger_hash |-> <<"A","1">>, ledger_data |-> <<"f","f">>],
      [ledger_hash |-> <<"A","1">>, ledger_data |-> <<"0","2">>],
      [ledger_hash |-> <<"A","1">>, ledger_data |-> <<"0","3">>],
      [ledger_hash |-> <<"A","1">>, ledger_data |-> <<"0","4">>],
      [ledger_hash |-> <<"A","1">>, ledger_data |-> <<"0","5">>],
      [ledger_hash |-> <<"A","1">>, ledger_data |-> <<"0","6">>] }

GoodHeader == [ledger_hash |-> <<"A","1">>, ledger_data |-> <<"0","1">>]

\* what the HTTP round trip of GetLedger may yield: a transport failure, or
\* a rawLedgerResponse.  The set is a union of slices: every transaction
\* list under a well-formed envelope, and over the short transaction lists
\* every error and validated flag, every header, every ledger index.
LedgerAnswer(e, v, li, h, txs) ==
    [transport |-> "ok", Error |-> e, Validated |-> v, LedgerIndex |-> li,
     LedgerHash |-> h.ledger_hash, LedgerData |-> h.ledger_data, Transactions |-> txs]

LedgerAnswers(n, max) ==
    { [transport |-> "failed"] }
    \cup { LedgerAnswer("", TRUE, n, GoodHeader, txs) : txs \in TxLists(max) }
    \cup { LedgerAnswer(e, v, n, GoodHeader, txs) :
              e \in {"", "lgrNotFound"}, v \in BOOLEAN, txs \in ShortTxLists(max) }
    \cup { LedgerAnswer("", TRUE, n, h, txs) :
              h \in HeaderInputs, txs \in ShortTxLists(max) }
    \cup { LedgerAnswer("", TRUE, li, GoodHeader, txs) :
              li \in 0..MaxSeq, txs \in ShortTxLists(max) }

\* what GetClosedLedger may yield: a failure, or any ledger index (the model
\* does not assume that the upstream is monotonic)
LatestAnswers ==
    { [err |-> TRUE, LedgerIndex |-> 0] }
    \cup { [err |-> FALSE, LedgerIndex |-> li] : li \in 0..MaxSeq }

\* ------------------------------------------------------------------ rpc.Client

\* binarycodec.DecodeLedgerData, the external codec, as a table on the first
\* byte of the blob: 1 a well-formed header, 2 a header whose parent hash is
\* not hex, 3 a header whose account and transaction hashes are not hex, 4 to
\* 6 well-formed headers with other total coins (no number, out of the range
\* of int64, negative), anything else fails
binarycodecDecodeLedgerData(hexStr) ==
    LET d == hexDecode(hexStr)
        b == IF ~d.err /\ d.bytes # <<>> THEN d.bytes[1] ELSE 0
        good == [err |-> FALSE, ParentHash |-> <<"B","2">>, AccountHash |-> <<"C","3">>,
                 TransactionHash |-> <<"D","4">>, TotalCoins |-> <<"1","2">>]
    IN  IF b = 1 THEN good
        ELSE IF b = 2 THEN [good EXCEPT !.ParentHash = <<"g","2">>]
        ELSE IF b = 3
        THEN [good EXCEPT !.AccountHash = <<"z","3">>, !.TransactionHash = <<"D">>,
                          !.TotalCoins = <<"+","7">>]
        ELSE IF b = 4 THEN [good EXCEPT !.TotalCoins = <<"1","x">>]
        ELSE IF b = 5 THEN [good EXCEPT !.TotalCoins = <<"2","0","0">>]
        ELSE IF b = 6 THEN [good EXCEPT !.TotalCoins = <<"-","5">>]
        ELSE [err |-> TRUE, ParentHash |-> <<>>, AccountHash |-> <<>>,
              TransactionHash |-> <<>>, TotalCoins |-> <<>>]

\* GetLedger, the conversion of one element of the transactions array
ConvertTransaction(el) ==
    [Hash   |-> IF "tx_blob" \in DOMAIN el THEN computeTxHash(el.tx_blob) ELSE <<>>,
     TxBlob |-> IF "tx_blob" \in DOMAIN el THEN el.tx_blob ELSE <<>>,
     Meta   |-> IF "meta" \in DOMAIN el THEN el.meta ELSE <<>>]

\* GetLedger, the types.Ledger built from an accepted response
ConvertLedger(raw) ==
    LET hd == IF raw.LedgerData # <<>> THEN binarycodecDecodeLedgerData(raw.LedgerData)
              ELSE [err |-> TRUE, ParentHash |-> <<>>, AccountHash |-> <<>>,
                    TransactionHash |-> <<>>, TotalCoins |-> <<>>]
    IN  [LedgerIndex |-> raw.LedgerIndex,
         LedgerHash |-> raw.LedgerHash,
         ParentHash |-> IF hd.err THEN <<>> ELSE hd.ParentHash,
         AccountHash |-> IF hd.err THEN <<>> ELSE hd.AccountHash,
         TransactionHash |-> IF hd.err THEN <<>> ELSE hd.TransactionHash,
         TotalCoins |-> IF hd.err THEN <<>> ELSE hd.TotalCoins,
         Transactions |-> [i \in 1..Len(raw.Transactions) |->
                              ConvertTransaction(raw.Transactions[i])]]

\* GetLedgerError without the check of the validated flag
GetLedgerErrorNoValidatedCheck(ctxCancelled, raw) ==
    IF ctxCancelled THEN "ledger request failed: context canceled"
    ELSE IF raw.transport # "ok" THEN "ledger request failed"
    ELSE IF raw.Error # "" THEN "RPC error"
    ELSE ""

\* GetLedger, from the HTTP answer on: the error it returns ("" for none)
GetLedgerError(ctxCancelled, raw) ==
    IF ctxCancelled THEN "ledger request failed: context canceled"
    ELSE IF raw.transport # "ok" THEN "ledger request failed"
    ELSE IF raw.Error # "" THEN "RPC error"
    ELSE IF ~raw.Validated THEN "ledger not yet validated"
    ELSE ""

\* ------------------------------------------------------------------ state

\* modulus of the unsigned arithmetic of the envelope (2^64 in the program)
UintModulus == 65536

Calls == 1..MaxBatch
Workers == 1..(IF MaxWorkerPool < 1 THEN 1 ELSE MaxWorkerPool)

VARIABLES
    workerPoolSize,  \* Fetcher.workerPoolSize
    blockNum,        \* Fetcher.lastBlockInfo.blockNum, the watermark
    caller,          \* what the caller of the Fetcher is in: "idle", "fetch", "batch"
    ctxDone,         \* the context of the running call is cancelled or timed out
    ret,             \* what the last call returned to the caller
    fetch,           \* the frame of each running Fetch: its position and locals, and
                     \* whether it was cancelled with workers outstanding
    worker,          \* the worker goroutines of each Fetch: position and txData
    batch,           \* the locals of the running FetchBatch
    pool             \* bufferPool, the byte arrays it was given, and the
                     \* running calls of decodeHexWithPool

vars == <<workerPoolSize, blockNum, caller, ctxDone, ret, fetch, worker, batch, pool>>

\* how many goroutines call decodeHexWithPool, and how many times each
MaxPoolCallers == 2
MaxDecodes == 2

\* cap of the buffers that bufferPool.New makes (4096 in the program)
PoolBufferCap == 1

PoolCallers == 1..MaxPoolCallers

\* a goroutine that is outside decodeHexWithPool and holds the slices that
\* its earlier calls returned
IdleDecode == [pc |-> "out", hexStr |-> <<>>, buf |-> 0, decoded |-> <<>>, returned |-> <<>>]

\* bufferPool before its first use: nothing pooled, no byte array allocated.
\* `slice` is the []byte that each *[]byte made by New points to (its array
\* and its length), `heap` the contents of every byte array by address.
EmptyPool ==
    [free |-> {}, slice |-> <<>>, heap |-> <<>>,
     call |-> [c \in PoolCallers |-> IdleDecode]]

NoResult == [kind |-> "none"]
ErrResult(e) == [kind |-> "err", err |-> e]

IdleFrame ==
    [pc |-> "idle", requestBlockNum |-> 0, sleepDuration |-> "zero", latestLedger |-> 0,
     rawResp |-> NoResult, ledger |-> NoResult, workerCount |-> 0, txChan |-> <<>>,
     closed |-> FALSE,
     errChan |-> <<>>, transactions |-> <<>>, i |-> 0, result |-> NoResult,
     cancelled |-> FALSE]

IdleWorker == [pc |-> "off", txData |-> Nil]

NoBatch == [requestBlockNums |-> <<>>, concurrencyLimit |-> 0, semaphore |-> 0,
            errChan |-> <<>>, blocks |-> <<>>]

\* NewFetcher, NewFetcherWithWorkerPool: the watermark starts at zero; the
\* pool size is whatever integer the constructor was given
Init ==
    /\ \E k \in 0..(MaxWorkerPool + 1) : workerPoolSize = MaxWorkerPool - k
    /\ blockNum = 0
    /\ caller = "idle"
    /\ ctxDone = FALSE
    /\ ret = NoResult
    /\ fetch = [t \in Calls |-> IdleFrame]
    /\ worker = [t \in Calls |-> [w \in Workers |-> IdleWorker]]
    /\ batch = NoBatch
    /\ pool = EmptyPool

\* the frame a call of Fetch(n) starts with
StartFrame(n) == [IdleFrame EXCEPT !.pc = "loop", !.requestBlockNum = n]

\* a Fetch that returns: its frame rests at "done" with the result
Returned(f, r) == [f EXCEPT !.pc = "done", !.result = r]

\* ------------------------------------------------------------------ the caller

\* the caller calls Fetch(ctx, client, n) on the Fetcher
CallFetch(n) ==
    /\ caller = "idle"
    /\ caller' = "fetch"
    /\ ctxDone' = FALSE
    /\ ret' = NoResult
    /\ fetch' = [fetch EXCEPT ![1] = StartFrame(n)]
    /\ UNCHANGED <<pool, workerPoolSize, blockNum, worker, batch>>

\* Fetch returns to its caller
ReturnFetch ==
    /\ caller = "fetch"
    /\ fetch[1].pc = "done"
    /\ ret' = fetch[1].result
    /\ caller' = "idle"
    /\ fetch' = [fetch EXCEPT ![1] = IdleFrame]
    /\ worker' = [worker EXCEPT ![1] = [w \in Workers |-> IdleWorker]]
    /\ UNCHANGED <<pool, workerPoolSize, blockNum, ctxDone, batch>>

\* IsBlockAvailable with a strict comparison
IsBlockAvailableStrict(s) ==
    /\ caller = "idle"
    /\ ret' = [kind |-> "available", blockNum |-> s, value |-> (s < blockNum)]
    /\ UNCHANGED <<pool, workerPoolSize, blockNum, caller, ctxDone, fetch, worker, batch>>

\* IsBlockAvailable(s): one read of the watermark
IsBlockAvailable(s) ==
    /\ caller = "idle"
    /\ ret' = [kind |-> "available", blockNum |-> s, value |-> (s <= blockNum)]
    /\ UNCHANGED <<pool, workerPoolSize, blockNum, caller, ctxDone, fetch, worker, batch>>

\* wg.Wait() returns: every worker goroutine of the call has exited
AllWorkersExited(t) ==
    \A w \in Workers : w <= fetch[t].workerCount => worker[t][w].pc = "exit"

\* a Fetch is in phase 2 with workers outstanding: the ledger RPC has
\* returned, the workers run, and not all of them have finished
WorkersOutstanding(t) ==
    /\ fetch[t].pc \in {"feed", "wait"}
    /\ ~AllWorkersExited(t)

\* the caller cancels the context of the running call, or its deadline passes
Cancel ==
    /\ caller # "idle"
    /\ ~ctxDone
    /\ ctxDone' = TRUE
    /\ fetch' = [t \in Calls |-> [fetch[t] EXCEPT !.cancelled = WorkersOutstanding(t)]]
    /\ UNCHANGED <<pool, workerPoolSize, blockNum, caller, ret, worker, batch>>

\* ------------------------------------------------------------------ Fetch, phase 1

\* for f.lastBlockInfo.blockNum < requestBlockNum
LoopTest(t) ==
    /\ fetch[t].pc = "loop"
    /\ fetch' = [fetch EXCEPT ![t].pc =
                    IF blockNum < fetch[t].requestBlockNum THEN "sleep" ELSE "getledger"]
    /\ UNCHANGED <<pool, workerPoolSize, blockNum, caller, ctxDone, ret, worker, batch>>

\* time.Sleep(sleepDuration)
Sleep(t) ==
    /\ fetch[t].pc = "sleep"
    /\ fetch' = [fetch EXCEPT ![t].pc = "poll"]
    /\ UNCHANGED <<pool, workerPoolSize, blockNum, caller, ctxDone, ret, worker, batch>>

\* client.GetLatestLedger(ctx): GetClosedLedger is called without the context
GetLatestLedger(t) ==
    /\ fetch[t].pc = "poll"
    /\ \E a \in LatestAnswers :
          fetch' = [fetch EXCEPT ![t] =
                      IF a.err THEN Returned(@, ErrResult("fetching latest ledger"))
                      ELSE [@ EXCEPT !.pc = "store", !.latestLedger = a.LedgerIndex]]
    /\ UNCHANGED <<pool, workerPoolSize, blockNum, caller, ctxDone, ret, worker, batch>>

\* the watermark after a poll that reported `latest`
NewWatermark(old, latest) == latest

\* f.lastBlockInfo.blockNum = latestLedger.LedgerIndex
StoreWatermark(t) ==
    /\ fetch[t].pc = "store"
    /\ blockNum' = NewWatermark(blockNum, fetch[t].latestLedger)
    /\ fetch' = [fetch EXCEPT ![t].pc = "check"]
    /\ UNCHANGED <<pool, workerPoolSize, caller, ctxDone, ret, worker, batch>>

\* if f.lastBlockInfo.blockNum >= requestBlockNum { break }; else the next
\* round sleeps latestBlockRetryInterval
CheckWatermark(t) ==
    /\ fetch[t].pc = "check"
    /\ fetch' = [fetch EXCEPT ![t] =
                    IF blockNum >= fetch[t].requestBlockNum
                    THEN [@ EXCEPT !.pc = "getledger", !.latestLedger = 0]
                    ELSE [@ EXCEPT !.pc = "loop", !.sleepDuration = "retry",
                                   !.latestLedger = 0]]
    /\ UNCHANGED <<pool, workerPoolSize, blockNum, caller, ctxDone, ret, worker, batch>>

\* ------------------------------------------------------------------ Fetch, phase 2

\* the types.Ledger that GetLedger returned (the local `ledger`)
Ledger(t) == fetch[t].ledger

\* numTx := len(ledger.Transactions)
NumTx(t) == Len(Ledger(t).Transactions)

\* the bound on the transaction lists the upstream answers with
TxBound == IF caller = "batch" THEN MaxBatchTx ELSE MaxTx

\* client.GetLedger(ctx, requestBlockNum) and the error check after it; the
\* request carries the context, so a cancelled context fails it
GetLedger(t) ==
    /\ fetch[t].pc = "getledger"
    /\ \E raw \in (IF ctxDone THEN { [transport |-> "failed"] }
                   ELSE LedgerAnswers(fetch[t].requestBlockNum, TxBound)) :
          LET e == GetLedgerError(ctxDone, raw)
          IN  fetch' = [fetch EXCEPT ![t] =
                          IF e # "" THEN Returned([@ EXCEPT !.rawResp = raw], ErrResult(e))
                          ELSE [@ EXCEPT !.pc = "spawn", !.rawResp = raw,
                                         !.ledger = ConvertLedger(raw)]]
    /\ UNCHANGED <<pool, workerPoolSize, blockNum, caller, ctxDone, ret, worker, batch>>

\* workerCount: the pool size, capped by the number of transactions, and 1
\* when that is zero
WorkerCount(poolSize, numTx) ==
    LET capped == IF numTx < poolSize THEN numTx ELSE poolSize
    IN  IF capped = 0 THEN 1 ELSE capped

\* the output slots, the two channels and the worker goroutines are created
StartWorkers(t) ==
    /\ fetch[t].pc = "spawn"
    /\ LET wc == WorkerCount(workerPoolSize, NumTx(t))
       IN  /\ fetch' = [fetch EXCEPT ![t] =
                          [@ EXCEPT !.pc = "feed", !.workerCount = wc, !.i = 0,
                                    !.transactions = [k \in 1..NumTx(t) |-> Nil],
                                    !.txChan = <<>>, !.errChan = <<>>, !.closed = FALSE]]
           /\ worker' = [worker EXCEPT ![t] =
                          [w \in Workers |-> IF w <= wc THEN [pc |-> "recv", txData |-> Nil]
                                             ELSE IdleWorker]]
    /\ UNCHANGED <<pool, workerPoolSize, blockNum, caller, ctxDone, ret, batch>>

\* txChan := make(chan ..., numTx): a send proceeds while the buffer has room
TxChanCanSend(t) == Len(fetch[t].txChan) < NumTx(t)

\* a receive from txChan proceeds when it holds an element or is closed
TxChanCanRecv(t) == fetch[t].txChan # <<>> \/ fetch[t].closed

\* an error channel with room for one error only
ErrChanCanSendOne(t) == Len(fetch[t].errChan) < 1

\* errChan := make(chan error, numTx): a send proceeds while the buffer has room
ErrChanCanSend(t) == Len(fetch[t].errChan) < NumTx(t)

\* txChan <- {index, tx}
Feed(t) ==
    /\ fetch[t].pc = "feed"
    /\ fetch[t].i < NumTx(t)
    /\ TxChanCanSend(t)
    /\ fetch' = [fetch EXCEPT ![t] =
                    [@ EXCEPT !.i = @ + 1,
                              !.txChan = Append(@, [index |-> fetch[t].i,
                                                    tx |-> Ledger(t).Transactions[fetch[t].i + 1]])]]
    /\ UNCHANGED <<pool, workerPoolSize, blockNum, caller, ctxDone, ret, worker, batch>>

\* the feeding ends without close(txChan)
CloseTxChanForgotten(t) ==
    /\ fetch[t].pc = "feed"
    /\ fetch[t].i = NumTx(t)
    /\ fetch' = [fetch EXCEPT ![t] = [@ EXCEPT !.pc = "wait"]]
    /\ UNCHANGED <<pool, workerPoolSize, blockNum, caller, ctxDone, ret, worker, batch>>

\* close(txChan), after the last transaction was fed
CloseTxChan(t) ==
    /\ fetch[t].pc = "feed"
    /\ fetch[t].i = NumTx(t)
    /\ fetch' = [fetch EXCEPT ![t] = [@ EXCEPT !.pc = "wait", !.closed = TRUE]]
    /\ UNCHANGED <<pool, workerPoolSize, blockNum, caller, ctxDone, ret, worker, batch>>

\* a receive that leaves the element in the channel
WorkerRecvPeek(t, w) ==
    /\ worker[t][w].pc = "recv"
    /\ TxChanCanRecv(t)
    /\ \/ /\ fetch[t].txChan # <<>>
          /\ worker' = [worker EXCEPT ![t][w] =
                          [pc |-> "hash", txData |-> Head(fetch[t].txChan)]]
          /\ UNCHANGED fetch
       \/ /\ fetch[t].txChan = <<>>
          /\ fetch[t].closed
          /\ worker' = [worker EXCEPT ![t][w] = [pc |-> "exit", txData |-> Nil]]
          /\ UNCHANGED fetch
    /\ UNCHANGED <<pool, workerPoolSize, blockNum, caller, ctxDone, ret, batch>>

\* for txData := range txChan
WorkerRecv(t, w) ==
    /\ worker[t][w].pc = "recv"
    /\ TxChanCanRecv(t)
    /\ \/ /\ fetch[t].txChan # <<>>
          /\ worker' = [worker EXCEPT ![t][w] =
                          [pc |-> "hash", txData |-> Head(fetch[t].txChan)]]
          /\ fetch' = [fetch EXCEPT ![t].txChan = Tail(@)]
       \/ /\ fetch[t].txChan = <<>>
          /\ fetch[t].closed
          /\ worker' = [worker EXCEPT ![t][w] = [pc |-> "exit", txData |-> Nil]]
          /\ UNCHANGED fetch
    /\ UNCHANGED <<pool, workerPoolSize, blockNum, caller, ctxDone, ret, batch>>

\* one decodeHexWithPool of a worker: on an error the error goes to errChan
\* and the worker continues with the next transaction
WorkerDecode(t, w, at, hexStr, next, what) ==
    /\ worker[t][w].pc = at
    /\ IF decodeHexWithPool(hexStr).err
       THEN /\ ErrChanCanSend(t)
            /\ fetch' = [fetch EXCEPT ![t].errChan =
                            Append(@, [what |-> what, index |-> worker[t][w].txData.index])]
            /\ worker' = [worker EXCEPT ![t][w] = [pc |-> "recv", txData |-> Nil]]
       ELSE /\ worker' = [worker EXCEPT ![t][w].pc = next]
            /\ UNCHANGED fetch
    /\ UNCHANGED <<pool, workerPoolSize, blockNum, caller, ctxDone, ret, batch>>

WorkerDecodeHash(t, w) ==
    /\ worker[t][w].pc = "hash"
    /\ WorkerDecode(t, w, "hash", worker[t][w].txData.tx.Hash, "blob", "decoding tx hash")

WorkerDecodeBlob(t, w) ==
    /\ worker[t][w].pc = "blob"
    /\ WorkerDecode(t, w, "blob", worker[t][w].txData.tx.TxBlob, "meta", "decoding tx blob")

WorkerDecodeMeta(t, w) ==
    /\ worker[t][w].pc = "meta"
    /\ WorkerDecode(t, w, "meta", worker[t][w].txData.tx.Meta, "map", "decoding meta blob")

\* what the worker maps a transaction to, once its three hex fields decoded
ProtoOf(tx, index) ==
    DecoderMapTransactionToProto(decodeHexWithPool(tx.TxBlob).bytes,
                                 decodeHexWithPool(tx.Meta).bytes,
                                 decodeHexWithPool(tx.Hash).bytes, index)

\* every worker writing the first slot, whatever the position
SlotOfFirst(index) == 1

\* the slot a worker writes the transaction of position `index` to
SlotOf(index) == index + 1

\* f.decoder.MapTransactionToProto and transactions[i] = protoTx; a mapping
\* error is logged and the transaction skipped
WorkerMap(t, w) ==
    /\ worker[t][w].pc = "map"
    /\ LET d == worker[t][w].txData
           r == ProtoOf(d.tx, d.index)
       IN  /\ worker' = [worker EXCEPT ![t][w] = [pc |-> "recv", txData |-> Nil]]
           /\ fetch' = IF r.err # "" THEN fetch
                       ELSE [fetch EXCEPT ![t].transactions[SlotOf(d.index)] = r.tx]
    /\ UNCHANGED <<pool, workerPoolSize, blockNum, caller, ctxDone, ret, batch>>

\* the slots that are not nil, in slot order
RECURSIVE FilterNil(_)
FilterNil(txs) ==
    IF txs = <<>> THEN <<>>
    ELSE IF Head(txs) = Nil THEN FilterNil(Tail(txs))
    ELSE <<Head(txs)>> \o FilterNil(Tail(txs))

\* wg.Wait(); close(errChan); the first error of errChan fails the ledger,
\* else the nil slots are filtered out
WaitWorkers(t) ==
    /\ fetch[t].pc = "wait"
    /\ AllWorkersExited(t)
    /\ fetch' = [fetch EXCEPT ![t] =
                    IF Len(fetch[t].errChan) > 0
                    THEN Returned(@, [kind |-> "err", err |-> Head(fetch[t].errChan).what,
                                      index |-> Head(fetch[t].errChan).index])
                    ELSE [@ EXCEPT !.pc = "header",
                                   !.transactions = FilterNil(fetch[t].transactions)]]
    /\ UNCHANGED <<pool, workerPoolSize, blockNum, caller, ctxDone, ret, worker, batch>>

\* convertBlock: the bstream envelope of a block
convertBlock(xrplBlk) ==
    [Number |-> xrplBlk.Number,
     Id |-> hexEncodeToString(xrplBlk.Hash),
     ParentId |-> hexEncodeToString(xrplBlk.Header.ParentHash),
     LibNum |-> (xrplBlk.Number + UintModulus - 1) % UintModulus,
     ParentNum |-> (xrplBlk.Number + UintModulus - 1) % UintModulus,
     Payload |-> xrplBlk]

\* the errors the four header decodes can leave in decodeErr: that of the
\* ledger hash or that of the parent hash, whichever goroutine takes the mutex first
DecodeErrs(ledger) ==
    (IF decodeHexWithPool(ledger.LedgerHash).err THEN {"decoding ledger hash"} ELSE {})
    \cup (IF decodeHexWithPool(ledger.ParentHash).err THEN {"decoding parent hash"} ELSE {})

\* the pbxrpl.Block built from the ledger and the kept transactions
BuildBlock(ledger, transactions) ==
    [Number |-> ledger.LedgerIndex,
     Hash |-> decodeHexWithPool(ledger.LedgerHash).bytes,
     Header |-> [ParentHash |-> decodeHexWithPool(ledger.ParentHash).bytes,
                 TotalDrops |-> totalDrops(ledger.TotalCoins),
                 AccountHash |-> decodeHexWithPool(ledger.AccountHash).bytes,
                 TransactionHash |-> decodeHexWithPool(ledger.TransactionHash).bytes],
     Version |-> 1,
     Transactions |-> transactions]

\* the header hashes are decoded, the block is built and converted
AssembleBlock(t) ==
    /\ fetch[t].pc = "header"
    /\ IF DecodeErrs(Ledger(t)) # {}
       THEN \E e \in DecodeErrs(Ledger(t)) :
               fetch' = [fetch EXCEPT ![t] = Returned(@, ErrResult(e))]
       ELSE fetch' = [fetch EXCEPT ![t] =
                        Returned(@, [kind |-> "block",
                                     block |-> convertBlock(BuildBlock(Ledger(t),
                                                              fetch[t].transactions))])]
    /\ UNCHANGED <<pool, workerPoolSize, blockNum, caller, ctxDone, ret, worker, batch>>

\* ------------------------------------------------------------------ FetchBatch

\* concurrencyLimit := 5
concurrencyLimit == 5

RequestLists == UNION { [1..k -> 1..MaxSeq] : k \in 0..MaxBatch }

\* FetchBatch(ctx, client, nums): nil for an empty list, else one goroutine
\* per request, each waiting for the semaphore
CallFetchBatch(nums) ==
    /\ caller = "idle"
    /\ ctxDone' = FALSE
    /\ IF Len(nums) = 0
       THEN /\ ret' = [kind |-> "batch", blocks |-> Nil, err |-> NoResult]
            /\ UNCHANGED <<caller, fetch, batch>>
       ELSE /\ ret' = NoResult
            /\ caller' = "batch"
            /\ batch' = [requestBlockNums |-> nums,
                         concurrencyLimit |-> Min(concurrencyLimit, Len(nums)),
                         semaphore |-> 0, errChan |-> <<>>,
                         blocks |-> [k \in 1..Len(nums) |-> Nil]]
            /\ fetch' = [t \in DOMAIN fetch |->
                            IF t <= Len(nums)
                            THEN [IdleFrame EXCEPT !.pc = "acquire", !.requestBlockNum = nums[t]]
                            ELSE IdleFrame]
    /\ UNCHANGED <<pool, workerPoolSize, blockNum, worker>>

\* f.Fetch(ctx, client, num) starts without the semaphore
AcquireUnlimited(t) ==
    /\ caller = "batch"
    /\ fetch[t].pc = "acquire"
    /\ batch' = [batch EXCEPT !.semaphore = @ + 1]
    /\ fetch' = [fetch EXCEPT ![t] = StartFrame(fetch[t].requestBlockNum)]
    /\ UNCHANGED <<pool, workerPoolSize, blockNum, caller, ctxDone, ret, worker>>

\* semaphore <- struct{}{}, then f.Fetch(ctx, client, num) starts
Acquire(t) ==
    /\ caller = "batch"
    /\ fetch[t].pc = "acquire"
    /\ batch.semaphore < batch.concurrencyLimit
    /\ batch' = [batch EXCEPT !.semaphore = @ + 1]
    /\ fetch' = [fetch EXCEPT ![t] = StartFrame(fetch[t].requestBlockNum)]
    /\ UNCHANGED <<pool, workerPoolSize, blockNum, caller, ctxDone, ret, worker>>

\* a goroutine that puts its block into the first slot
FinishGoroutineFirstSlot(t) ==
    /\ caller = "batch"
    /\ fetch[t].pc = "done"
    /\ batch' = [batch EXCEPT
                    !.semaphore = @ - 1,
                    !.errChan = IF fetch[t].result.kind = "err"
                                THEN Append(@, [num |-> fetch[t].requestBlockNum,
                                                err |-> fetch[t].result])
                                ELSE @,
                    !.blocks[1] = IF fetch[t].result.kind = "err" THEN @
                                  ELSE fetch[t].result.block]
    /\ fetch' = [fetch EXCEPT ![t] = [IdleFrame EXCEPT !.pc = "finished"]]
    /\ worker' = [worker EXCEPT ![t] = [w \in Workers |-> IdleWorker]]
    /\ UNCHANGED <<pool, workerPoolSize, blockNum, caller, ctxDone, ret>>

\* the goroutine after its Fetch returned: the error goes to errChan or the
\* block to blocks[idx]; the deferred calls release the semaphore
FinishGoroutine(t) ==
    /\ caller = "batch"
    /\ fetch[t].pc = "done"
    /\ batch' = [batch EXCEPT
                    !.semaphore = @ - 1,
                    !.errChan = IF fetch[t].result.kind = "err"
                                THEN Append(@, [num |-> fetch[t].requestBlockNum,
                                                err |-> fetch[t].result])
                                ELSE @,
                    !.blocks[t] = IF fetch[t].result.kind = "err" THEN @
                                  ELSE fetch[t].result.block]
    /\ fetch' = [fetch EXCEPT ![t] = [IdleFrame EXCEPT !.pc = "finished"]]
    /\ worker' = [worker EXCEPT ![t] = [w \in Workers |-> IdleWorker]]
    /\ UNCHANGED <<pool, workerPoolSize, blockNum, caller, ctxDone, ret>>

\* wg.Wait(); close(errChan); the first error, or the blocks
ReturnFetchBatch ==
    /\ caller = "batch"
    /\ \A t \in DOMAIN fetch :
          t <= Len(batch.requestBlockNums) => fetch[t].pc = "finished"
    /\ ret' = IF Len(batch.errChan) > 0
              THEN [kind |-> "batch", blocks |-> Nil, err |-> Head(batch.errChan)]
              ELSE [kind |-> "batch", blocks |-> batch.blocks, err |-> NoResult]
    /\ caller' = "idle"
    /\ batch' = NoBatch
    /\ fetch' = [t \in DOMAIN fetch |-> IdleFrame]
    /\ UNCHANGED <<pool, workerPoolSize, blockNum, ctxDone, worker>>

\* ------------------------------------------------------------------ specification

FetchStep(t) ==
    \/ LoopTest(t)
    \/ Sleep(t)
    \/ GetLatestLedger(t)
    \/ StoreWatermark(t)
    \/ CheckWatermark(t)
    \/ GetLedger(t)
    \/ StartWorkers(t)
    \/ Feed(t)
    \/ CloseTxChan(t)
    \/ WaitWorkers(t)
    \/ AssembleBlock(t)

WorkerStep(t, w) ==
    \/ WorkerRecv(t, w)
    \/ WorkerDecodeHash(t, w)
    \/ WorkerDecodeBlob(t, w)
    \/ WorkerDecodeMeta(t, w)
    \/ WorkerMap(t, w)

BatchStep(t) ==
    \/ Acquire(t)
    \/ FinishGoroutine(t)

Next ==
    \/ \E n \in 1..MaxSeq : CallFetch(n)
    \/ ReturnFetch
    \/ \E s \in 0..MaxSeq : IsBlockAvailable(s)
    \/ \E nums \in RequestLists : CallFetchBatch(nums)
    \/ ReturnFetchBatch
    \/ Cancel
    \/ \E t \in Calls : FetchStep(t)
    \/ \E t \in Calls, w \in Workers : WorkerStep(t, w)
    \/ \E t \in Calls : BatchStep(t)

Spec == Init /\ [][Next]_vars

\* goroutines are scheduled fairly: a Fetch, a worker or a batch goroutine
\* that can take a step eventually takes one.  The caller and the upstream
\* are under no obligation.
Fairness ==
    /\ \A t \in Calls : WF_vars(FetchStep(t))
    /\ \A t \in Calls : WF_vars(BatchStep(t))
    /\ \A t \in Calls, w \in Workers : WF_vars(WorkerStep(t, w))

FairSpec == Init /\ [][Next]_vars /\ Fairness

\* ------------------------------------------------------------------ properties

\* a Fetch frame that has returned
Done(t) == fetch[t].pc = "done"

\* a Fetch frame whose GetLedger got an HTTP answer
Answered(t) == fetch[t].rawResp # NoResult /\ fetch[t].rawResp.transport = "ok"

\* a Fetch frame whose GetLedger returned a ledger
Accepted(t) ==
    /\ Answered(t)
    /\ fetch[t].rawResp.Error = ""
    /\ fetch[t].rawResp.Validated

\* C1: a frame whose ledger answer has validated = false or a non-empty error
\* has returned, with the error of GetLedger and no block; so every block
\* comes from an answer with validated = true and no error.
OnlyValidatedLedgersEmitted ==
    \A t \in Calls :
        /\ (Answered(t) /\ ~Accepted(t)) =>
              /\ Done(t)
              /\ fetch[t].result.kind = "err"
              /\ fetch[t].result.err \in {"RPC error", "ledger not yet validated"}
        /\ (Done(t) /\ fetch[t].result.kind = "block") => Accepted(t)

\* C1 witness: an answer with validated = false and no error made Fetch return an error
UnvalidatedAnswerRejected ==
    \E t \in Calls :
        /\ Done(t)
        /\ Answered(t)
        /\ fetch[t].rawResp.Error = ""
        /\ ~fetch[t].rawResp.Validated
        /\ fetch[t].result.kind = "err"

\* C2: no step decreases the watermark.
WatermarkNeverDecreases == [][blockNum' >= blockNum]_vars

\* C3: a Fetch that is about to issue its ledger request sees the watermark
\* at or above the requested sequence.
LedgerRequestGated ==
    \A t \in Calls : fetch[t].pc = "getledger" => blockNum >= fetch[t].requestBlockNum

WorkerErrors == {"decoding tx hash", "decoding tx blob", "decoding meta blob"}

\* what processing element k of a response comes to: a hex error, a mapping
\* error, or the mapped transaction
Outcome(raw, k) ==
    LET tx == ConvertTransaction(raw.Transactions[k])
    IN  IF hexDecode(tx.Hash).err THEN [err |-> "decoding tx hash", tx |-> Nil]
        ELSE IF hexDecode(tx.TxBlob).err THEN [err |-> "decoding tx blob", tx |-> Nil]
        ELSE IF hexDecode(tx.Meta).err THEN [err |-> "decoding meta blob", tx |-> Nil]
        ELSE ProtoOf(tx, k - 1)

\* the transactions of a response that the failure policy keeps, mapped, in
\* response order
KeptTransactions(raw) ==
    LET all == [k \in 1..Len(raw.Transactions) |-> Outcome(raw, k)]
        kept == SelectSeq(all, LAMBDA r : r.err = "")
    IN  [k \in 1..Len(kept) |-> kept[k].tx]

EmittedTransactions(t) == fetch[t].result.block.Payload.Transactions

\* C4: the transactions of an emitted block are the kept transactions of the
\* response, in response order.
EmittedInResponseOrder ==
    \A t \in Calls :
        (Done(t) /\ fetch[t].result.kind = "block") =>
            EmittedTransactions(t) = KeptTransactions(fetch[t].rawResp)

\* C5: in an emitted block the index of the transaction at position i is i.
IndexEqualsPosition ==
    \A t \in Calls :
        (Done(t) /\ fetch[t].result.kind = "block") =>
            \A k \in 1..Len(EmittedTransactions(t)) : EmittedTransactions(t)[k].Index = k - 1

\* a transaction of the response has a field that is not hex
HexFailure(raw) == \E k \in 1..Len(raw.Transactions) : Outcome(raw, k).err \in WorkerErrors

\* C6: with a hex failure on any transaction Fetch returns a worker error;
\* without one it returns no worker error, and a block it emits holds every
\* transaction whose mapping did not fail.
ReferenceFailurePolicy ==
    \A t \in Calls :
        (Done(t) /\ Accepted(t)) =>
            IF HexFailure(fetch[t].rawResp)
            THEN fetch[t].result.kind = "err" /\ fetch[t].result.err \in WorkerErrors
            ELSE /\ ~(fetch[t].result.kind = "err" /\ fetch[t].result.err \in WorkerErrors)
                 /\ fetch[t].result.kind = "block" =>
                        EmittedTransactions(t) = KeptTransactions(fetch[t].rawResp)

\* exactly one transaction of the response fails, in hex or in the codec, the
\* others map, and the header of the response is well formed
SingleFailure(raw) ==
    /\ Cardinality({ k \in 1..Len(raw.Transactions) : Outcome(raw, k).err # "" }) = 1
    /\ \E k \in 1..Len(raw.Transactions) :
          Outcome(raw, k).err \in WorkerErrors \cup {"decoding transaction", "decoding metadata"}
    /\ DecodeErrs(ConvertLedger(raw)) = {}

\* C7: when a single transaction fails in the codec or in hex, Fetch returns
\* a block with every other transaction.  Stated for the fetches that ran
\* their workers, which are the ones that meet the failure.
SingleFailureDropsOnlyThat ==
    \A t \in Calls :
        (Done(t) /\ Accepted(t) /\ fetch[t].workerCount >= 1
                 /\ SingleFailure(fetch[t].rawResp)) =>
            /\ fetch[t].result.kind = "block"
            /\ EmittedTransactions(t) = KeptTransactions(fetch[t].rawResp)

\* C8: a Fetch cancelled after its ledger RPC returned and before all its
\* workers finished returns an error and no block.
CancelledInPhase2ReturnsError ==
    \A t \in Calls : (Done(t) /\ fetch[t].cancelled) => fetch[t].result.kind = "err"

Polling(t) == fetch[t].pc \in {"loop", "sleep", "poll", "store", "check"}

\* C9: a Fetch whose context is cancelled while it polls eventually returns
\* an error.
CancelledPollReturns ==
    \A t \in Calls :
        (ctxDone /\ Polling(t)) ~> (Done(t) /\ fetch[t].result.kind = "err")

\* the Fetch frames whose next step reads or writes the watermark
WatermarkAccessors == { t \in Calls : fetch[t].pc \in {"loop", "store", "check"} }

\* the Fetch frames whose next step writes the watermark
WatermarkWriters == { t \in Calls : fetch[t].pc = "store" }

\* C10: the watermark is never accessed by two running fetches at once: while a
\* Fetch is at a write of the watermark, no other Fetch is at a read or a
\* write of it.
WatermarkSingleAccessor ==
    \A t \in WatermarkWriters : WatermarkAccessors = {t}

\* the latest index that the upstream reported to the Fetch in this round of
\* the poll loop is at or above the requested sequence
ReportedReached(t) ==
    /\ fetch[t].pc \in {"store", "check"}
    /\ fetch[t].latestLedger >= fetch[t].requestBlockNum

MainHashBad(raw) ==
    LET l == ConvertLedger(raw)
    IN  \/ l.LedgerHash = <<>>
        \/ l.ParentHash = <<>>
        \/ hexDecode(l.LedgerHash).err
        \/ hexDecode(l.ParentHash).err

\* the Fetch started at least one worker
RanWorkers(t) == fetch[t].workerCount >= 1

\* C12: a Fetch whose ledger has a missing or malformed ledger hash or parent
\* hash returns an error; a Fetch whose ledger hash and parent hash are well
\* formed and whose transactions are all hex returns the block, whatever the
\* account hash and the transaction hash are.  Stated for the fetches that
\* ran their workers.
HeaderHashPolicy ==
    \A t \in Calls :
        (Done(t) /\ Accepted(t) /\ RanWorkers(t)) =>
            /\ MainHashBad(fetch[t].rawResp) => fetch[t].result.kind = "err"
            /\ (~MainHashBad(fetch[t].rawResp) /\ ~HexFailure(fetch[t].rawResp)) =>
                   fetch[t].result.kind = "block"

\* the second half of C12 alone
MinorHashesNeverFail ==
    \A t \in Calls :
        (Done(t) /\ Accepted(t) /\ ~MainHashBad(fetch[t].rawResp)
                 /\ ~HexFailure(fetch[t].rawResp)) => fetch[t].result.kind = "block"

\* the malformed hashes alone: a ledger hash or parent hash that is not hex
MalformedMainHashFails ==
    \A t \in Calls :
        (Done(t) /\ Accepted(t) /\ DecodeErrs(ConvertLedger(fetch[t].rawResp)) # {}) =>
            fetch[t].result.kind = "err"

\* what Fetch comes to for a ledger answer when its steps run one after the
\* other: the error of a hex failure or of a main hash, else the block with
\* the transactions the workers keep (none when no worker runs)
FetchOutcome(raw, poolSize) ==
    LET ledger == ConvertLedger(raw)
        ran == WorkerCount(poolSize, Len(raw.Transactions)) >= 1
    IN  IF (ran /\ HexFailure(raw)) \/ DecodeErrs(ledger) # {}
        THEN [kind |-> "err"]
        ELSE [kind |-> "block",
              block |-> convertBlock(BuildBlock(ledger,
                            IF ran THEN KeptTransactions(raw) ELSE <<>>))]

\* C13: idempotence: the block a Fetch returns is determined by the ledger
\* answer of the upstream (and the pool size of the Fetcher), whatever the
\* scheduling of the workers; two Fetch calls that got the same answer agree
\* on whether they fail and on the block.
FetchIdempotent ==
    /\ \A t \in Calls :
          (Done(t) /\ Accepted(t)) =>
              LET o == FetchOutcome(fetch[t].rawResp, workerPoolSize)
              IN  /\ fetch[t].result.kind = o.kind
                  /\ o.kind = "block" => fetch[t].result.block = o.block
    /\ \A t, u \in Calls :
          (Done(t) /\ Done(u) /\ Accepted(t) /\ fetch[t].rawResp = fetch[u].rawResp) =>
              /\ fetch[t].result.kind = fetch[u].result.kind
              /\ fetch[t].result.kind = "block" => fetch[t].result.block = fetch[u].result.block

\* a block with two transactions that two workers mapped has been returned
TwoWorkersBlockReturned ==
    \E t \in Calls :
        /\ Done(t)
        /\ fetch[t].result.kind = "block"
        /\ fetch[t].workerCount = 2
        /\ Len(EmittedTransactions(t)) = 2
        /\ EmittedTransactions(t)[1] # EmittedTransactions(t)[2]

\* two Fetch calls of one FetchBatch returned for the same ledger answer
SameAnswerTwice ==
    /\ Done(1) /\ Done(2) /\ Accepted(1)
    /\ fetch[1].rawResp = fetch[2].rawResp
    /\ fetch[1].result.kind = "block"

\* C14: the block a Fetch(N) returns carries the number N, in the envelope
\* and in the block.  Stated for the fetches that ran their workers.
NumberIsRequested ==
    \A t \in Calls :
        (Done(t) /\ RanWorkers(t) /\ fetch[t].result.kind = "block") =>
            /\ fetch[t].result.block.Number = fetch[t].requestBlockNum
            /\ fetch[t].result.block.Payload.Number = fetch[t].requestBlockNum

\* C15: the envelope's id and parent_id are the upper-case hex of the block's
\* ledger hash and parent hash.  Stated for the fetches that ran their workers.
EnvelopeIdsUppercase ==
    \A t \in Calls :
        (Done(t) /\ RanWorkers(t) /\ fetch[t].result.kind = "block") =>
            LET b == fetch[t].result.block
            IN  /\ b.Id = ToUpper(hexEncodeToString(b.Payload.Hash))
                /\ b.ParentId = ToUpper(hexEncodeToString(b.Payload.Header.ParentHash))

\* C16: the envelope's lib_num and parent_num of a returned block are its
\* number minus one as integers, and the number is not zero.  Stated for the
\* fetches that ran their workers.
LibNumIsNumberMinusOne ==
    \A t \in Calls :
        (Done(t) /\ RanWorkers(t) /\ fetch[t].result.kind = "block") =>
            LET b == fetch[t].result.block
            IN  /\ b.Number # 0
                /\ b.LibNum = b.Number - 1
                /\ b.ParentNum = b.Number - 1

\* the element of the response that an emitted transaction was made from
ElementOf(raw, tx) == raw.Transactions[tx.Index + 1]

\* C17: the hash of an emitted transaction is the hash its response element
\* supplies, and the computed one only when the element supplies none.
SuppliedHashEmitted ==
    \A t \in Calls :
        (Done(t) /\ fetch[t].result.kind = "block") =>
            \A k \in 1..Len(EmittedTransactions(t)) :
                LET tx == EmittedTransactions(t)[k]
                    el == ElementOf(fetch[t].rawResp, tx)
                IN  tx.Hash = IF "hash" \in DOMAIN el
                              THEN hexDecode(el.hash).bytes
                              ELSE hexDecode(computeTxHash(el.tx_blob)).bytes

\* what is emitted instead: always the computed hash
ComputedHashEmitted ==
    \A t \in Calls :
        (Done(t) /\ fetch[t].result.kind = "block") =>
            \A k \in 1..Len(EmittedTransactions(t)) :
                LET tx == EmittedTransactions(t)[k]
                IN  tx.Hash = hexDecode(computeTxHash(
                                  ElementOf(fetch[t].rawResp, tx).tx_blob)).bytes

\* element k of the response decodes to a transaction of a type that
\* mapTxDetails has no case for
UnknownType(raw, k) ==
    /\ Outcome(raw, k).err = ""
    /\ Outcome(raw, k).tx.TxType \notin DetailTypes

\* C18: a transaction of an unknown type does not fail the ledger and is not
\* dropped: a Fetch whose response has no hex failure and well-formed main
\* hashes returns a block, and the block holds every transaction of an
\* unknown type, at its position, with its common fields and no details.
UnknownTypeEmitted ==
    \A t \in Calls :
        (Done(t) /\ Accepted(t) /\ ~HexFailure(fetch[t].rawResp)
                 /\ DecodeErrs(ConvertLedger(fetch[t].rawResp)) = {}) =>
            /\ fetch[t].result.kind = "block"
            /\ \A k \in 1..Len(fetch[t].rawResp.Transactions) :
                  UnknownType(fetch[t].rawResp, k) =>
                      \E j \in 1..Len(EmittedTransactions(t)) :
                          LET tx == EmittedTransactions(t)[j]
                          IN  /\ tx.Index = k - 1
                              /\ tx.TxType = "FutureTx"
                              /\ tx.Account = "rBBB"
                              /\ tx.TxBlob = hexDecode(fetch[t].rawResp.Transactions[k].tx_blob).bytes
                              /\ tx.TxDetails = NoDetails

\* the same for the fetches that ran their workers
UnknownTypeEmittedByWorkers ==
    \A t \in Calls :
        (Done(t) /\ Accepted(t) /\ RanWorkers(t) /\ ~HexFailure(fetch[t].rawResp)
                 /\ DecodeErrs(ConvertLedger(fetch[t].rawResp)) = {}) =>
            /\ fetch[t].result.kind = "block"
            /\ \A k \in 1..Len(fetch[t].rawResp.Transactions) :
                  UnknownType(fetch[t].rawResp, k) =>
                      \E j \in 1..Len(EmittedTransactions(t)) :
                          /\ EmittedTransactions(t)[j].Index = k - 1
                          /\ EmittedTransactions(t)[j].TxType = "FutureTx"
                          /\ EmittedTransactions(t)[j].TxDetails = NoDetails

\* a block with a transaction of an unknown type has been returned
UnknownTypeReturned ==
    \E t \in Calls :
        /\ Done(t)
        /\ fetch[t].result.kind = "block"
        /\ \E j \in 1..Len(EmittedTransactions(t)) :
              EmittedTransactions(t)[j].TxType = "FutureTx"

\* ------------------------------------------------------------------ type registry

\* the type names the registry and the mapper are called with: those of
\* their two switches, and names that neither has
TypeNames ==
    DetailTypes \cup { p[1] : p \in TxTypeTable } \cup {"FutureTx", "payment", ""}

\* a caller asks the registry for the enum value of a type name
CallTxTypeStringToProto(txType) ==
    /\ caller = "idle"
    /\ ret' = [kind |-> "txtype", txType |-> txType, value |-> TxTypeStringToProto(txType)]
    /\ UNCHANGED <<pool, workerPoolSize, blockNum, caller, ctxDone, fetch, worker, batch>>

\* a caller has the mapper set the details of a transaction of a type
CallMapTxDetails(txType) ==
    /\ caller = "idle"
    /\ ret' = [kind |-> "details", txType |-> txType, value |-> mapTxDetails(txType)]
    /\ UNCHANGED <<pool, workerPoolSize, blockNum, caller, ctxDone, fetch, worker, batch>>

RegistryNext ==
    \/ \E txType \in TypeNames : CallTxTypeStringToProto(txType)
    \/ \E txType \in TypeNames : CallMapTxDetails(txType)

RegistrySpec == Init /\ [][RegistryNext]_vars

\* C19: the registry gives every type name of the data model, which are the
\* names the mapper attaches a body variant for and the bridge names, an enum
\* value other than TX_UNKNOWN, and every other name TX_UNKNOWN.
RegistryCoversTypes ==
    ret.kind = "txtype" =>
        /\ ret.txType \in DetailTypes => ret.value # "TX_UNKNOWN"
        /\ ret.txType \in {"FutureTx", "payment", ""} => ret.value = "TX_UNKNOWN"

\* the names of the table are given their enum value, the others TX_UNKNOWN
RegistryFollowsTable ==
    ret.kind = "txtype" =>
        (ret.value # "TX_UNKNOWN") = (ret.txType \in { p[1] : p \in TxTypeTable })

\* ------------------------------------------------------------------ total drops

\* the decimal digits of a natural number
RECURSIVE FormatNat(_)
FormatNat(n) ==
    IF n < 10 THEN <<Digits[n + 1]>> ELSE FormatNat(n \div 10) \o <<Digits[(n % 10) + 1]>>

\* the decimal strings that denote the integer n: an optional sign, leading
\* zeros, the digits
Spellings(n) ==
    LET abs == IF n < 0 THEN 0 - n ELSE n
        signs == IF n < 0 THEN {<<"-">>}
                 ELSE IF n = 0 THEN {<<>>, <<"+">>, <<"-">>} ELSE {<<>>, <<"+">>}
    IN  { sg \o z \o FormatNat(abs) : sg \in signs, z \in {<<>>, <<"0">>, <<"0","0">>} }

Int64 == (0 - (MaxInt64 + 1))..MaxInt64

\* the decimal strings of the signed 64-bit integers
ValidDecimals == UNION { Spellings(n) : n \in Int64 }

NoNumberCoinsReturned ==
    \E t \in Calls :
        /\ Done(t)
        /\ fetch[t].result.kind = "block"
        /\ ConvertLedger(fetch[t].rawResp).TotalCoins = <<"1","x">>

NegativeCoinsReturned ==
    \E t \in Calls :
        /\ Done(t)
        /\ fetch[t].result.kind = "block"
        /\ fetch[t].result.block.Payload.Header.TotalDrops = 0 - 5

MissingCoinsReturned ==
    \E t \in Calls :
        /\ Done(t)
        /\ fetch[t].result.kind = "block"
        /\ fetch[t].rawResp.LedgerData # <<>>
        /\ ConvertLedger(fetch[t].rawResp).TotalCoins = <<>>

\* ------------------------------------------------------------------ IsBlockAvailable

\* C21: a call of IsBlockAvailable(s) returns whether s is at most the
\* watermark and leaves the Fetcher, and everything else, as it was; with the
\* watermark at zero it returns false for every s >= 1.
IsBlockAvailableReadsOnly ==
    [][ret'.kind = "available" =>
          /\ ret'.value = (ret'.blockNum <= blockNum)
          /\ (blockNum = 0 /\ ret'.blockNum >= 1) => ~ret'.value
          /\ UNCHANGED <<pool, workerPoolSize, blockNum, caller, ctxDone, fetch, worker, batch>>]_vars

\* IsBlockAvailable returned true for a sequence the watermark has reached
AvailableAnswered ==
    /\ ret.kind = "available"
    /\ ret.blockNum >= 1
    /\ ret.blockNum = blockNum
    /\ ret.value

\* ------------------------------------------------------------------ phase 2

\* a Fetch is in phase 2: GetLedger returned the ledger, Fetch has not returned
Phase2(t) == fetch[t].pc \in {"spawn", "feed", "wait", "header"}

\* a step of phase 2 of a Fetch: one of its own or one of a worker of its
Phase2Step(t) ==
    \/ StartWorkers(t)
    \/ Feed(t)
    \/ CloseTxChan(t)
    \/ WaitWorkers(t)
    \/ AssembleBlock(t)
    \/ \E w \in Workers : WorkerStep(t, w)

\* the hex string that a worker is about to decode
DecodingOf(t, w) ==
    LET tx == worker[t][w].txData.tx
    IN  IF worker[t][w].pc = "hash" THEN tx.Hash
        ELSE IF worker[t][w].pc = "blob" THEN tx.TxBlob ELSE tx.Meta

\* the worker is at a send to errChan or at a receive from txChan that
\* cannot proceed
WorkerBlockedOnErrChan(t, w) ==
    /\ worker[t][w].pc \in {"hash", "blob", "meta"}
    /\ decodeHexWithPool(DecodingOf(t, w)).err
    /\ ~ErrChanCanSend(t)

WorkerBlockedOnTxChan(t, w) == worker[t][w].pc = "recv" /\ ~TxChanCanRecv(t)

\* the Fetch is at a send to txChan that cannot proceed
FeedBlocked(t) == fetch[t].pc = "feed" /\ fetch[t].i < NumTx(t) /\ ~TxChanCanSend(t)

\* a Fetch is in phase 2 and neither it nor a worker of its can take a step:
\* it is blocked at its send or waits for its workers, and every worker of
\* its has exited or is blocked
Phase2Stuck(t) ==
    /\ \/ FeedBlocked(t)
       \/ fetch[t].pc = "wait" /\ ~AllWorkersExited(t)
    /\ \A w \in Workers :
          \/ worker[t][w].pc \in {"off", "exit"}
          \/ WorkerBlockedOnErrChan(t, w)
          \/ WorkerBlockedOnTxChan(t, w)

\* Phase2Stuck is the phase 2 in which no step is enabled
Phase2StuckIsDisabled ==
    \A t \in Calls : Phase2Stuck(t) <=> (Phase2(t) /\ ~ENABLED Phase2Step(t))

\* the ledger of the Fetch has no transactions and well-formed main hashes
EmptyLedger(t) ==
    /\ fetch[t].pc \in {"spawn", "feed", "wait", "header", "done"}
    /\ fetch[t].ledger # NoResult
    /\ fetch[t].ledger.Transactions = <<>>
    /\ ~MainHashBad(fetch[t].rawResp)

PoolInputs ==
    { <<"A","1">>, <<"B","2","C","3">>, <<"D","5","g","1">>, <<>> }

Zeros(n) == [i \in 1..n |-> 0]

\* the bytes that hex.Decode has written to dst when it returns: those of
\* the pairs before the first pair that is not hex
RECURSIVE hexDecodeWritten(_)
hexDecodeWritten(src) ==
    IF Len(src) < 2 \/ fromHexChar(src[1]) > 15 \/ fromHexChar(src[2]) > 15 THEN <<>>
    ELSE <<fromHexChar(src[1]) * 16 + fromHexChar(src[2])>>
             \o hexDecodeWritten(SubSeq(src, 3, Len(src)))

\* the array with its first bytes overwritten
Overwrite(array, bytes) ==
    [i \in 1..Len(array) |-> IF i <= Len(bytes) THEN bytes[i] ELSE array[i]]

\* a goroutine calls decodeHexWithPool(hexStr)
CallDecode(c, hexStr) ==
    /\ pool.call[c].pc = "out"
    /\ Len(pool.call[c].returned) < MaxDecodes
    /\ pool' = [pool EXCEPT !.call[c].pc = "get", !.call[c].hexStr = hexStr]
    /\ UNCHANGED <<workerPoolSize, blockNum, caller, ctxDone, ret, fetch, worker, batch>>

\* getBuffer: bufferPool.Get() hands out a pooled buffer, which leaves the
\* pool, or the buffer that New makes
GetBuffer(c) ==
    /\ pool.call[c].pc = "get"
    /\ \/ \E h \in pool.free :
             pool' = [pool EXCEPT !.free = @ \ {h},
                                  !.call[c].pc = "size", !.call[c].buf = h]
       \/ pool' = [pool EXCEPT
                      !.heap = Append(@, Zeros(PoolBufferCap)),
                      !.slice = Append(@, [array |-> Len(pool.heap) + 1, len |-> 0]),
                      !.call[c].pc = "size", !.call[c].buf = Len(pool.slice) + 1]
    /\ UNCHANGED <<workerPoolSize, blockNum, caller, ctxDone, ret, fetch, worker, batch>>

\* hex.DecodedLen(len(hexStr))
ExpectedLen(c) == Len(pool.call[c].hexStr) \div 2

\* the buffer gets the expected length: a new array when its capacity is
\* too small, else a reslice
EnsureCapacity(c) ==
    /\ pool.call[c].pc = "size"
    /\ LET h == pool.call[c].buf
       IN  IF Len(pool.heap[pool.slice[h].array]) < ExpectedLen(c)
           THEN pool' = [pool EXCEPT
                           !.heap = Append(@, Zeros(ExpectedLen(c))),
                           !.slice[h] = [array |-> Len(pool.heap) + 1, len |-> ExpectedLen(c)],
                           !.call[c].pc = "decode"]
           ELSE pool' = [pool EXCEPT !.slice[h].len = ExpectedLen(c),
                                     !.call[c].pc = "decode"]
    /\ UNCHANGED <<workerPoolSize, blockNum, caller, ctxDone, ret, fetch, worker, batch>>

\* hex.Decode(*buf, hexStr) writes into the pooled buffer; on an error
\* decodeHexWithPool returns nil
DecodeIntoBuffer(c) ==
    /\ pool.call[c].pc = "decode"
    /\ LET a == pool.slice[pool.call[c].buf].array
           e == hexDecode(pool.call[c].hexStr).err
       IN  pool' = [pool EXCEPT
                      !.heap[a] = Overwrite(@, hexDecodeWritten(pool.call[c].hexStr)),
                      !.call[c].pc = IF e THEN "put" ELSE "copy",
                      !.call[c].decoded = [err |-> e, array |-> 0, len |-> 0]]
    /\ UNCHANGED <<workerPoolSize, blockNum, caller, ctxDone, ret, fetch, worker, batch>>

\* the decoded bytes returned as a slice of the pooled buffer
CopyOutAliased(c) ==
    /\ pool.call[c].pc = "copy"
    /\ pool' = [pool EXCEPT
                   !.call[c].pc = "put",
                   !.call[c].decoded = [err |-> FALSE,
                                        array |-> pool.slice[pool.call[c].buf].array,
                                        len |-> ExpectedLen(c)]]
    /\ UNCHANGED <<workerPoolSize, blockNum, caller, ctxDone, ret, fetch, worker, batch>>

\* result := make([]byte, n); copy(result, (*buf)[:n])
CopyOut(c) ==
    /\ pool.call[c].pc = "copy"
    /\ LET a == pool.slice[pool.call[c].buf].array
           n == ExpectedLen(c)
       IN  pool' = [pool EXCEPT
                      !.heap = Append(@, SubSeq(pool.heap[a], 1, n)),
                      !.call[c].pc = "put",
                      !.call[c].decoded = [err |-> FALSE, array |-> Len(pool.heap) + 1,
                                           len |-> n]]
    /\ UNCHANGED <<workerPoolSize, blockNum, caller, ctxDone, ret, fetch, worker, batch>>

\* the deferred putBuffer: the slice is cut to length 0 and the buffer goes
\* back to the pool; decodeHexWithPool returns
PutBuffer(c) ==
    /\ pool.call[c].pc = "put"
    /\ LET h == pool.call[c].buf
       IN  pool' = [pool EXCEPT
                      !.slice[h].len = 0,
                      !.free = @ \cup {h},
                      !.call[c] = [IdleDecode EXCEPT
                                      !.returned = Append(pool.call[c].returned,
                                          [hexStr |-> pool.call[c].hexStr,
                                           err |-> pool.call[c].decoded.err,
                                           array |-> pool.call[c].decoded.array,
                                           len |-> pool.call[c].decoded.len])]]
    /\ UNCHANGED <<workerPoolSize, blockNum, caller, ctxDone, ret, fetch, worker, batch>>

PoolNext ==
    \/ \E c \in PoolCallers, hexStr \in PoolInputs : CallDecode(c, hexStr)
    \/ \E c \in PoolCallers : GetBuffer(c)
    \/ \E c \in PoolCallers : EnsureCapacity(c)
    \/ \E c \in PoolCallers : DecodeIntoBuffer(c)
    \/ \E c \in PoolCallers : CopyOut(c)
    \/ \E c \in PoolCallers : PutBuffer(c)

\* the pool of a Fetcher with the largest worker pool
PoolInit == Init /\ workerPoolSize = MaxWorkerPool

PoolSpec == PoolInit /\ [][PoolNext]_vars

\* the bytes of a slice that decodeHexWithPool returned, as they are now
BytesOf(r) == SubSeq(pool.heap[r.array], 1, r.len)

Str(x) == [s |-> x]
Obj(r) == [o |-> r]
Arr(q) == [a |-> q]
IsStr(v) == DOMAIN v = {"s"}
IsObj(v) == DOMAIN v = {"o"}
IsArr(v) == DOMAIN v = {"a"}

\* m[key].(string), and the zero value the field keeps when that fails
GetString(m, key) == IF key \in DOMAIN m /\ IsStr(m[key]) THEN m[key].s ELSE ""

\* m[key].(map[string]interface{}) succeeds
HasObj(m, key) == key \in DOMAIN m /\ IsObj(m[key])

\* Mapper.mapMemosFromFlat: the elements that are {"Memo": {...}}, unwrapped
mapMemosFromFlat(memosRaw) ==
    LET memos == SelectSeq(memosRaw, LAMBDA v : IsObj(v) /\ HasObj(v.o, "Memo"))
    IN  [i \in 1..Len(memos) |->
            LET memo == memos[i].o.Memo.o
            IN  [MemoData |-> GetString(memo, "MemoData"),
                 MemoFormat |-> GetString(memo, "MemoFormat"),
                 MemoType |-> GetString(memo, "MemoType")]]

\* Mapper.mapSignersFromFlat: the elements that are {"Signer": {...}}, unwrapped
mapSignersFromFlat(signersRaw) ==
    LET signers == SelectSeq(signersRaw, LAMBDA v : IsObj(v) /\ HasObj(v.o, "Signer"))
    IN  [i \in 1..Len(signers) |->
            LET signer == signers[i].o.Signer.o
            IN  [Account |-> GetString(signer, "Account"),
                 TxnSignature |-> GetString(signer, "TxnSignature"),
                 SigningPubKey |-> GetString(signer, "SigningPubKey")]]

\* Mapper.mapRawTransactions: one entry per element that is an object, with
\* the element's own "RawTransaction" when that is a string
mapRawTransactions(txsRaw) ==
    LET maps == SelectSeq(txsRaw, IsObj)
    IN  [i \in 1..Len(maps) |-> [RawTransaction |-> GetString(maps[i].o, "RawTransaction")]]

\* Mapper.mapBatchSigners: one entry per element that is an object, with
\* the element's own Account, SigningPubKey, TxnSignature and Signers
mapBatchSigners(signersRaw) ==
    LET maps == SelectSeq(signersRaw, IsObj)
    IN  [i \in 1..Len(maps) |->
            LET signerMap == maps[i].o
            IN  [Account |-> GetString(signerMap, "Account"),
                 SigningPubKey |-> GetString(signerMap, "SigningPubKey"),
                 TxnSignature |-> GetString(signerMap, "TxnSignature"),
                 Signers |-> IF "Signers" \in DOMAIN signerMap /\ IsArr(signerMap.Signers)
                             THEN mapSignersFromFlat(signerMap.Signers.a) ELSE <<>>]]

\* how long the arrays are that the mappers are called with
MaxArray == 2

\* elements of the arrays as the codec yields them: single-entry wrappers
\* around the inner object, and objects and values of other shapes
ArrayElements ==
    { Obj([BatchSigner |-> Obj([Account |-> Str("rA"), SigningPubKey |-> Str("K1")])]),
      Obj([BatchSigner |-> Obj([Account |-> Str("rB"), TxnSignature |-> Str("S2"),
                                Signers |-> Arr(<<Obj([Signer |->
                                               Obj([Account |-> Str("rD")])])>>)])]),
      Obj([Account |-> Str("rC"), SigningPubKey |-> Str("K3")]),
      Obj([Memo |-> Obj([MemoData |-> Str("D1"), MemoType |-> Str("T1")])]),
      Obj([Signer |-> Obj([Account |-> Str("rE"), TxnSignature |-> Str("S5")])]),
      Obj([RawTransaction |-> Obj([Account |-> Str("rF"), TransactionType |-> Str("Payment")])]),
      Obj([RawTransaction |-> Str("AB")]),
      Str("x") }

ArrayInputs == UNION { [1..k -> ArrayElements] : k \in 0..MaxArray }

\* the mapper is called with an array of a decoded transaction
CallMapMemosFromFlat(q) ==
    /\ caller = "idle"
    /\ ret' = [kind |-> "memos", input |-> q, value |-> mapMemosFromFlat(q)]
    /\ UNCHANGED <<pool, workerPoolSize, blockNum, caller, ctxDone, fetch, worker, batch>>

CallMapSignersFromFlat(q) ==
    /\ caller = "idle"
    /\ ret' = [kind |-> "signers", input |-> q, value |-> mapSignersFromFlat(q)]
    /\ UNCHANGED <<pool, workerPoolSize, blockNum, caller, ctxDone, fetch, worker, batch>>

CallMapRawTransactions(q) ==
    /\ caller = "idle"
    /\ ret' = [kind |-> "rawtransactions", input |-> q, value |-> mapRawTransactions(q)]
    /\ UNCHANGED <<pool, workerPoolSize, blockNum, caller, ctxDone, fetch, worker, batch>>

CallMapBatchSigners(q) ==
    /\ caller = "idle"
    /\ ret' = [kind |-> "batchsigners", input |-> q, value |-> mapBatchSigners(q)]
    /\ UNCHANGED <<pool, workerPoolSize, blockNum, caller, ctxDone, fetch, worker, batch>>

ArrayNext ==
    \/ \E q \in ArrayInputs : CallMapMemosFromFlat(q)
    \/ \E q \in ArrayInputs : CallMapSignersFromFlat(q)
    \/ \E q \in ArrayInputs : CallMapRawTransactions(q)
    \/ \E q \in ArrayInputs : CallMapBatchSigners(q)

ArraySpec == Init /\ [][ArrayNext]_vars

\* the element is the single-entry wrapper {key: {...}}
IsWrapper(v, key) == IsObj(v) /\ DOMAIN v.o = {key} /\ IsObj(v.o[key])

\* C24: for an array of {"BatchSigner": {...}} wrappers mapBatchSigners
\* returns one entry per element, in input order, with the Account, the
\* SigningPubKey and the TxnSignature of the inner object; and for an array
\* of {"RawTransaction": {...}} wrappers mapRawTransactions returns one
\* entry per element.
BatchArraysUnwrapped ==
    /\ (ret.kind = "batchsigners"
            /\ \A i \in 1..Len(ret.input) : IsWrapper(ret.input[i], "BatchSigner")) =>
          /\ Len(ret.value) = Len(ret.input)
          /\ \A i \in 1..Len(ret.input) :
                LET inner == ret.input[i].o.BatchSigner.o
                IN  /\ ret.value[i].Account = GetString(inner, "Account")
                    /\ ret.value[i].SigningPubKey = GetString(inner, "SigningPubKey")
                    /\ ret.value[i].TxnSignature = GetString(inner, "TxnSignature")
    /\ (ret.kind = "rawtransactions"
            /\ \A i \in 1..Len(ret.input) : IsWrapper(ret.input[i], "RawTransaction")) =>
          Len(ret.value) = Len(ret.input)

\* the convention of memos and signers: the wrappers are stripped, the inner
\* fields are read, the order is kept
MemosAndSignersUnwrapped ==
    /\ (ret.kind = "memos" /\ \A i \in 1..Len(ret.input) : IsWrapper(ret.input[i], "Memo")) =>
          /\ Len(ret.value) = Len(ret.input)
          /\ \A i \in 1..Len(ret.input) :
                ret.value[i].MemoData = GetString(ret.input[i].o.Memo.o, "MemoData")
    /\ (ret.kind = "signers"
            /\ \A i \in 1..Len(ret.input) : IsWrapper(ret.input[i], "Signer")) =>
          /\ Len(ret.value) = Len(ret.input)
          /\ \A i \in 1..Len(ret.input) :
                ret.value[i].Account = GetString(ret.input[i].o.Signer.o, "Account")

\* ------------------------------------------------------------------ work distribution

\* the worker holds a transaction that it took from txChan
Busy(t, w) == worker[t][w].pc \in {"hash", "blob", "meta", "map"}

\* the positions of the transactions that are in txChan or held by a worker
InFlight(t) ==
    { fetch[t].txChan[k].index : k \in 1..Len(fetch[t].txChan) }
        \cup { worker[t][w].txData.index : w \in { v \in Workers : Busy(t, v) } }

\* no position is in txChan twice, or in txChan and held, or held by two workers
HeldOnce(t) ==
    Len(fetch[t].txChan) + Cardinality({ w \in Workers : Busy(t, w) })
        = Cardinality(InFlight(t))

\* the workers of the Fetch run: it feeds them or waits for them
Distributing(t) == fetch[t].pc \in {"feed", "wait"} /\ RanWorkers(t)

\* C25: while the workers of a Fetch run, every transaction that was fed is
\* in the channel or with one worker, once; a transaction that a worker has
\* finished is never taken again; a slot is written only by the one worker
\* that holds its transaction, and only while it is empty; and when the
\* wait for the workers ends every transaction has been fed and finished.
ProcessedExactlyOnce ==
    [][\A t \in Calls :
          Distributing(t) =>
              /\ HeldOnce(t)
              /\ \A k \in InFlight(t) : k < fetch[t].i
              /\ Distributing(t)' => InFlight(t)' \subseteq (InFlight(t) \cup {fetch[t].i})
              /\ Distributing(t)' =>
                    \A k \in 1..NumTx(t) :
                        fetch'[t].transactions[k] # fetch[t].transactions[k] =>
                            /\ fetch[t].transactions[k] = Nil
                            /\ Cardinality({ w \in Workers :
                                   /\ worker[t][w].pc = "map"
                                   /\ worker[t][w].txData.index = k - 1
                                   /\ worker'[t][w].pc = "recv" }) = 1
              /\ ~Distributing(t)' => (InFlight(t) = {} /\ fetch[t].i = NumTx(t))]_vars

\* two workers of a Fetch hold a transaction each
TwoWorkersBusy ==
    \E t \in Calls :
        /\ Distributing(t)
        /\ Busy(t, 1) /\ Busy(t, 2)
        /\ worker[t][1].txData.index # worker[t][2].txData.index

\* ------------------------------------------------------------------ phase 2 ends

\* what is left to do for one worker goroutine: the steps up to its next
\* receive, and the receive that ends its loop
WorkerRemaining(t, w) ==
    LET at == worker[t][w].pc
    IN  IF at = "hash" THEN 5
        ELSE IF at = "blob" THEN 4
        ELSE IF at = "meta" THEN 3
        ELSE IF at = "map" THEN 2
        ELSE IF at = "recv" THEN 1 ELSE 0

RECURSIVE SumRemaining(_, _)
SumRemaining(t, n) == IF n = 0 THEN 0 ELSE WorkerRemaining(t, n) + SumRemaining(t, n - 1)

\* what is left to do in phase 2 of a Fetch: its own statements, the sends
\* of the transactions not yet fed, the receives of the ones in txChan and
\* the work of the workers
Phase2Remaining(t) ==
    LET at == fetch[t].pc
    IN  IF at = "spawn" THEN 4 + Cardinality(Workers) + 6 * NumTx(t)
        ELSE (IF at = "feed" THEN 3 ELSE IF at = "wait" THEN 2 ELSE 1)
             + 6 * (NumTx(t) - fetch[t].i)
             + 5 * Len(fetch[t].txChan)
             + SumRemaining(t, Cardinality(Workers))

\* C26: phase 2 of a Fetch ends and never deadlocks: the send to txChan
\* and the sends to errChan always have room, txChan is closed when Fetch
\* waits for its workers, a Fetch in phase 2 is never stuck, and every step
\* of the Fetch or of a worker of its reduces what is left to do in phase 2.
Phase2Ends ==
    [][\A t \in Calls :
          Phase2(t) =>
              /\ ~FeedBlocked(t)
              /\ \A w \in Workers : ~WorkerBlockedOnErrChan(t, w)
              /\ fetch[t].pc = "wait" => fetch[t].closed
              /\ ~Phase2Stuck(t)
              /\ Phase2(t)' =>
                    /\ Phase2Remaining(t)' <= Phase2Remaining(t)
                    /\ Phase2Remaining(t)' = Phase2Remaining(t) =>
                          /\ [fetch'[t] EXCEPT !.cancelled = fetch[t].cancelled] = fetch[t]
                          /\ worker'[t] = worker[t]]_vars

\* the workers of a Fetch have exited after every transaction of the ledger
\* failed to decode
AllDecodesFailed ==
    \E t \in Calls :
        /\ fetch[t].pc = "wait"
        /\ AllWorkersExited(t)
        /\ NumTx(t) = MaxTx
        /\ Len(fetch[t].errChan) = MaxTx

\* ------------------------------------------------------------------ worker count

\* the workers of the Fetch have been started and the Fetch has not returned
WorkersStarted(t) == fetch[t].pc \in {"feed", "wait", "header"}

\* C27: a Fetch runs at least one worker and at most min(W, number of
\* transactions) workers, 1 for an empty ledger or a pool size of zero, for
\* every pool size W, and when its workers have exited no transaction is
\* left in the work channel.
AtLeastOneWorker ==
    \A t \in Calls :
        WorkersStarted(t) =>
            /\ fetch[t].workerCount >= 1
            /\ \/ fetch[t].workerCount <= Min(workerPoolSize, NumTx(t))
               \/ fetch[t].workerCount = 1
            /\ Cardinality({ w \in Workers : worker[t][w].pc # "off" }) = fetch[t].workerCount
            /\ (fetch[t].pc = "header") => fetch[t].txChan = <<>>

\* ------------------------------------------------------------------ the fast path

\* Fetch has been called and has not yet made the first test of its loop
BeforeFirstTest(t) == fetch[t].pc = "loop" /\ fetch[t].sleepDuration = "zero"

\* the watermark has reached the requested sequence of the Fetch
WatermarkReached(t) == blockNum >= fetch[t].requestBlockNum

\* C28: a Fetch(N) that is called with the watermark >= N neither sleeps
\* nor polls the latest ledger and issues one ledger request: from its call
\* to its first loop test the watermark stays >= N, that test leads to the
\* ledger request, and a Fetch that has issued its ledger request issues
\* no other request, in every call.
KnownLedgerNotPolled ==
    [][\A t \in Calls :
          /\ (BeforeFirstTest(t) /\ WatermarkReached(t)) =>
                \/ BeforeFirstTest(t)' /\ WatermarkReached(t)'
                \/ fetch'[t].pc = "getledger"
          /\ fetch[t].pc = "getledger" => fetch'[t].pc \in {"getledger", "spawn", "done"}
          /\ Phase2(t) => fetch'[t].pc \in {"spawn", "feed", "wait", "header", "done"}]_vars

\* ------------------------------------------------------------------ the semaphore of FetchBatch

\* the longest request list, longer than the concurrency limit
MaxRequests == 6

\* the request lists of every length up to MaxRequests
LongRequestLists == { [k \in 1..n |-> 1 + (k % MaxSeq)] : n \in 0..MaxRequests }

\* the goroutines that FetchBatch can start
Goroutines == 1..MaxRequests

\* the Fetch of a goroutine of FetchBatch, from its call to its return: it
\* returns a block or an error, and it may have stored a watermark
FetchRuns(t) ==
    /\ caller = "batch"
    /\ fetch[t].pc = "loop"
    /\ \E failed \in BOOLEAN :
          fetch' = [fetch EXCEPT ![t] =
                      Returned(@, IF failed THEN ErrResult("fetching ledger")
                                  ELSE [kind |-> "block",
                                        block |-> convertBlock(BuildBlock(ConvertLedger(
                                                     LedgerAnswer("", TRUE, fetch[t].requestBlockNum,
                                                                  GoodHeader, <<>>)), <<>>))])]
    /\ \E latest \in 0..MaxSeq :
          blockNum' = IF blockNum < fetch[t].requestBlockNum
                      THEN NewWatermark(blockNum, latest) ELSE blockNum
    /\ UNCHANGED <<pool, workerPoolSize, caller, ctxDone, ret, worker, batch>>

\* a Fetcher on which FetchBatch is called with lists of up to MaxRequests
SemaphoreInit ==
    /\ workerPoolSize = MaxWorkerPool
    /\ blockNum = 0
    /\ caller = "idle"
    /\ ctxDone = FALSE
    /\ ret = NoResult
    /\ fetch = [t \in Goroutines |-> IdleFrame]
    /\ worker = [t \in Goroutines |-> [w \in Workers |-> IdleWorker]]
    /\ batch = NoBatch
    /\ pool = EmptyPool

SemaphoreNext ==
    \/ \E nums \in LongRequestLists : CallFetchBatch(nums)
    \/ \E t \in Goroutines : Acquire(t)
    \/ \E t \in Goroutines : FetchRuns(t)
    \/ \E t \in Goroutines : FinishGoroutine(t)
    \/ ReturnFetchBatch

SemaphoreSpec == SemaphoreInit /\ [][SemaphoreNext]_vars

\* the goroutines that hold the semaphore: their Fetch runs or has returned
InProgress == { t \in DOMAIN fetch : fetch[t].pc \notin {"idle", "acquire", "finished"} }

\* C29: FetchBatch never has more than 5 Fetch calls in progress, for
\* every length of the request list, and it returns only when every
\* goroutine that it started has finished.
AtMostFiveInProgress ==
    [][/\ caller = "batch" =>
            /\ Cardinality(InProgress) <= concurrencyLimit
            /\ Cardinality(InProgress) = batch.semaphore
       /\ (caller = "batch" /\ caller' = "idle") =>
            /\ InProgress = {}
            /\ \A t \in DOMAIN fetch :
                  t <= Len(batch.requestBlockNums) => fetch[t].pc = "finished"
            /\ Len(batch.errChan)
                 + Cardinality({ t \in DOMAIN fetch :
                                   t <= Len(batch.requestBlockNums) /\ batch.blocks[t] # Nil })
                 = Len(batch.requestBlockNums)]_vars

\* five Fetch calls run and a sixth goroutine waits for the semaphore
SixthGoroutineWaits ==
    /\ caller = "batch"
    /\ Cardinality({ t \in DOMAIN fetch : fetch[t].pc = "loop" }) = concurrencyLimit
    /\ \E t \in DOMAIN fetch : fetch[t].pc = "acquire"

\* ------------------------------------------------------------------ the result of FetchBatch

\* the requests of the running FetchBatch, by position
Requests == 1..Len(batch.requestBlockNums)

\* C30: FetchBatch is all-or-nothing and positional: slot i is written
\* only with the block that the Fetch of the i-th request returned; when no
\* Fetch failed the result is the list of the slots, as long as the request
\* list and complete; when a Fetch failed the result is nil with one of the
\* errors; and for an empty request list the result is nil without an
\* error and no Fetch is started.
BatchAllOrNothing ==
    [][/\ (caller = "batch" /\ caller' = "batch") =>
            \A i \in Requests :
                batch'.blocks[i] # batch.blocks[i] =>
                    /\ fetch[i].pc = "done" /\ fetch'[i].pc = "finished"
                    /\ fetch[i].requestBlockNum = batch.requestBlockNums[i]
                    /\ fetch[i].result.kind = "block"
                    /\ batch'.blocks[i] = fetch[i].result.block
                    /\ batch.blocks[i] = Nil
       /\ (caller = "batch" /\ caller' = "idle") =>
            /\ ret'.kind = "batch"
            /\ \A i \in Requests : fetch[i].pc = "finished"
            /\ Len(batch.errChan) + Cardinality({ i \in Requests : batch.blocks[i] # Nil })
                 = Len(batch.requestBlockNums)
            /\ IF Len(batch.errChan) = 0
               THEN /\ ret'.err = NoResult
                    /\ Len(ret'.blocks) = Len(batch.requestBlockNums)
                    /\ \A i \in Requests :
                          ret'.blocks[i] = batch.blocks[i] /\ ret'.blocks[i] # Nil
               ELSE /\ ret'.blocks = Nil
                    /\ \E k \in 1..Len(batch.errChan) : ret'.err = batch.errChan[k]
       /\ (caller = "idle" /\ caller' = "idle" /\ ret'.kind = "batch") =>
            /\ ret'.blocks = Nil
            /\ ret'.err = NoResult
            /\ UNCHANGED <<fetch, worker, batch, blockNum>>]_vars

\* FetchBatch has returned nil and an error
BatchFailed == ret.kind = "batch" /\ ret.err # NoResult /\ ret.blocks = Nil

\* FetchBatch has returned a block for each of its requests
BatchReturned ==
    /\ ret.kind = "batch"
    /\ ret.err = NoResult
    /\ DOMAIN ret.blocks = 1..MaxBatch
    /\ ret.blocks[1] # ret.blocks[2]

====
